---- MODULE Spec2Model ----
(***************************************************************************)
(* A backtest run of the Jockey strategy (src/harb/strategy.py) driven as  *)
(* src/backtest.py drives a strategy: replay of the races of the training  *)
(* collection in scheduled_off order, stake sizing and bet placement,      *)
(* skill fitting, the per-event scorecard and the persistence of the bets. *)
(*                                                                         *)
(* Money and probabilities are fixed-point integers in units of 1/Unit.    *)
(* Net P&L is kept in units of 1/(100*Unit) so that the commission factor  *)
(* of 0.95 is exact.                                                       *)
(*                                                                         *)
(* Spec      one run over up to MaxRaces races of RacePool                 *)
(* SpecBet   the same, with Strategy.bet also called with any event id     *)
(* SpecLong  one run over a stream long enough for the progress reports    *)
(* SpecSweep the parameter sweep of backtest.py __main__ over a worker     *)
(*           pool, each run_backtest taken as one step                     *)
(***************************************************************************)
EXTENDS Integers, Sequences, FiniteSets, TLC

VARIABLES
    train,      \* db[train_coll]: the races of the training collection
    vwao,       \* self.vwao: the quote snapshot loaded by run()
    cursor,     \* the races the sorted cursor has not yielded yet
    i,          \* number of races the loop of run() has taken from the cursor
    curr,       \* self._curr: the race being handled (<<>> before the first)
    bets,       \* self._bets: the ledger
    hm,         \* self.hm: the skill belief of every horse
    pc,         \* position of the run
    p,          \* handle_race local p (after line 144), [] when unset
    w,          \* handle_race local w, <<>> when unset
    coll,       \* handle_race local coll: <<c>> when computed, <<>> when unset or NaN
    k,          \* number of runners of the list comprehension of line 155 already bet on
    events,     \* the events frame of make_scorecard
    bkt_bets,   \* db[BETS_COLL]: the bets persisted by run_backtest
    handled,    \* history: the races passed to handle_race, in order
    fitted,     \* history: the event ids passed to hm.fit_race, in order
    log,        \* the progress reports of run() (lines 68-72), in order
    mparams,    \* backtest.py __main__: the eight hyperparameter ranges
    jobs,       \* args.jobs
    n_processes, \* size of the worker pool
    tasks,      \* the (n_bkt, mparams) arguments handed to pool.map, in order
    status,     \* per task: "queued", "running", "done", "failed", "dropped", "killed"
    main        \* position of the parent process ("worker" inside a worker)

vars == <<train, vwao, cursor, i, curr, bets, hm, pc, p, w, coll, k, events,
          bkt_bets, handled, fitted, log,
          mparams, jobs, n_processes, tasks, status, main>>

sweepvars == <<mparams, jobs, n_processes, tasks, status, main>>

replayvars == <<train, vwao, cursor, i, curr, bets, hm, pc, p, w, coll, k, events,
                bkt_bets, handled, fitted, log>>

----------------------------------------------------------------------------
(* Bounds and program constants *)

\* Largest number of races in the training collection.
MaxRaces == 5

\* Fixed-point scale: a multiple of 10*odds for every odds of the quote pool.
Unit == 10 * 120

\* handle_race: np.all(self.hm.get_runs(runners) > 2)
MaxRuns == 6
MaxCpu == 2
MaxStream == 201
\* Strategy.run line 68: i % 100
LogEvery == 100
MinRuns == 2
\* handle_race: if coll > -60
MaxLoss == 60
\* handle_race: race['n_runners'] < 3
MinRunners == 3
\* DEFAULT_COMM = 0.95, in percent
CommPct == 95
\* backtest.py: --min-races default
min_races == 3
\* backtest.py: --max-exposure default
max_exposure == 50

TO_BE_PLACED == "TO BE PLACED"

Horses == {"h1", "h2", "h3", "h4"}

----------------------------------------------------------------------------
(* The data the store can hold *)

Race(id, t, ev, sel, win) ==
    [event_id |-> id, scheduled_off |-> t, event |-> ev,
     n_runners |-> Len(sel), selection |-> sel, winners |-> win]

\* The races a training collection is drawn from.  Event ids are unique;
\* scheduled_off is not monotone in the event id and has ties.
RacePool ==
    { Race(1, 3, "WIN", <<"h1", "h2", "h3">>, {"h1"}),
      Race(2, 1, "WIN", <<"h1", "h2", "h3">>, {"h2"}),
      Race(3, 2, "WIN", <<"h1", "h2", "h3">>, {"h2"}),
      Race(4, 2, "WIN", <<"h1", "h2", "h3">>, {"h3"}),
      Race(5, 4, "WIN", <<"h1", "h2", "h3">>, {"h2"}),
      Race(6, 5, "WIN", <<"h1", "h2", "h3">>, {"h3"}),
      Race(7, 1, TO_BE_PLACED, <<"h1", "h2", "h3">>, {"h1", "h2"}),
      Race(8, 4, "WIN", <<"h1", "h2">>, {"h1"}),
      Race(9, 5, "WIN", <<"h1", "h2", "h3">>, {}),
      Race(10, 5, "WIN", <<"h1", "h2", "h3">>, {"h1"}),
      Race(11, 6, "WIN", <<"h1", "h2", "h3">>, {"h2"}),
      Race(12, 4, "WIN", <<"h1", "h2", "h4">>, {"h4"}),
      Race(13, 6, "WIN", <<"h1", "h2", "h3">>, {"h1"}),
      Race(14, 6, TO_BE_PLACED, <<"h1", "h2", "h3">>, {"h1", "h3"}),
      Race(15, 5, TO_BE_PLACED, <<"h1", "h2">>, {"h1"}) }

\* The vwao collection: event id -> (selection -> odds).  Event 10 has no
\* quote at all, event 11 has no quote for h3.
QuotePool ==
    [e \in ((1..15) \ {10}) \cup (101..(100 + MaxStream)) |->
        CASE e = 5  -> [h \in {"h1", "h2", "h3"} |-> IF h = "h1" THEN 2 ELSE 4]
          [] e = 6  -> [h \in {"h1", "h2", "h3"} |-> IF h = "h1" THEN 120 ELSE 2]
          [] e = 13 -> [h \in {"h1", "h2", "h3"} |-> IF h = "h1" THEN 120 ELSE 3]
          [] e = 9  -> [h \in {"h1", "h2", "h3"} |-> 3]
          [] e = 11 -> [h \in {"h1", "h2"} |-> 3]
          [] e = 12 -> [h \in {"h1", "h2", "h4"} |-> 3]
          [] e = 8  -> [h \in {"h1", "h2"} |-> 2]
          [] e = 15 -> [h \in {"h1", "h2"} |-> 2]
          [] OTHER  -> [h \in {"h1", "h2", "h3"} |-> 3]]

----------------------------------------------------------------------------
(* Helpers *)

RECURSIVE SumSeq(_)
SumSeq(s) ==
    IF s = <<>> THEN 0
    ELSE IF Len(s) = 1 THEN s[1]
    ELSE LET half == Len(s) \div 2
         IN  SumSeq(SubSeq(s, 1, half)) + SumSeq(SubSeq(s, half + 1, Len(s)))

RECURSIVE MinSeq(_)
MinSeq(s) ==
    IF Len(s) = 1 THEN s[1]
    ELSE LET m == MinSeq(Tail(s)) IN IF s[1] < m THEN s[1] ELSE m

----------------------------------------------------------------------------
(* analytics.HorseModel: one belief per horse, created on first appearance *)

\* Belief of a horse never seen: no run, no win.
Prior == [runs |-> 0, wins |-> 0]

get_runs(model, h) == model[h].runs

\* fit_race: every participant's belief is updated from the outcome.
fit_race(model, race) ==
    [h \in Horses |->
        IF \E n \in 1..Len(race.selection) : race.selection[n] = h
        THEN [runs |-> model[h].runs + 1,
              wins |-> model[h].wins + (IF h \in race.winners THEN 1 ELSE 0)]
        ELSE model[h]]

\* pwin_trapz: one probability per runner, computed from the beliefs alone.
pwin_trapz(model, runners) ==
    LET tot == SumSeq([n \in 1..Len(runners) |-> model[runners[n]].wins])
    IN  [n \in 1..Len(runners) |->
            IF tot = 0 THEN Unit \div Len(runners)
            ELSE (Unit * model[runners[n]].wins) \div tot]

----------------------------------------------------------------------------
(* risk *)

\* nwin1_l2reg(p, q, 0.1): argmax of sum w*(p/q - 1) - 0.1*|w|^2, that is
\* w = (p/q - 1) / (2*0.1); q = 1/odds.
nwin1_l2reg(pp, odds) ==
    [n \in 1..Len(pp) |-> 5 * (pp[n] * odds[n] - Unit)]

\* nwin1_bet_returns(w, odds): the return of each single-winner outcome.
nwin1_bet_returns(ww, odds) ==
    [n \in 1..Len(ww) |-> ww[n] * (odds[n] - 1) - (SumSeq(ww) - ww[n])]

----------------------------------------------------------------------------
(* Strategy *)

\* The quote of a selection is in the snapshot.
HasQuote(e, r) == e \in DOMAIN vwao /\ r \in DOMAIN vwao[e]

\* Faulty variant of bet_asserts: line 26 is missing.
bet_asserts_nothing(event_id) == TRUE

\* Strategy.bet line 26: assert event_id == self._curr['event_id']
bet_asserts(event_id) == event_id = curr.event_id

\* Faulty variant of bet: a losing bet always costs the size of the stake.
bet_loss_unsigned(race, event_id, selection, amount, pr) ==
    LET odds == vwao[event_id][selection]
        win  == IF selection \in race.winners THEN 1 ELSE 0
        size == IF amount < 0 THEN -amount ELSE amount
        pnl  == win * amount * (odds - 1) - (1 - win) * size
    IN  [event_id      |-> event_id,
         scheduled_off |-> race.scheduled_off,
         selection     |-> selection,
         amount        |-> amount,
         odds          |-> odds,
         pnl           |-> pnl,
         win           |-> race.winners,
         user_p        |-> pr]

\* Strategy.bet, lines 30-41: the bet appended for `selection` of the current
\* race; user_fields is {'p': pr}.
bet(race, event_id, selection, amount, pr) ==
    LET odds == vwao[event_id][selection]
        win  == IF selection \in race.winners THEN 1 ELSE 0
        pnl  == win * amount * (odds - 1) - (1 - win) * amount
    IN  [event_id      |-> event_id,
         scheduled_off |-> race.scheduled_off,
         selection     |-> selection,
         amount        |-> amount,
         odds          |-> odds,
         pnl           |-> pnl,
         win           |-> race.winners,
         user_p        |-> pr]

\* Faulty variant of cursor_next: the query without its sort.
cursor_next_unsorted(c) == c

\* find(..., sort=[('scheduled_off', 1)]): the races the sorted cursor may
\* yield next (the order among equal scheduled_off is the store's).
cursor_next(c) ==
    {r \in c : \A s \in c : r.scheduled_off <= s.scheduled_off}

\* Faulty variant of Skipped: the placeholder marker is not tested.
Skipped_count_only(race) == race.n_runners < MinRunners

\* Faulty variant of Skipped: the runner count is not tested.
Skipped_marker_only(race) == race.event = TO_BE_PLACED

\* handle_race line 129: the race is not handled at all.
Skipped(race) == race.event = TO_BE_PLACED \/ race.n_runners < MinRunners

\* Faulty variant of Eligible: np.any in place of np.all.
Eligible_any(model, runners) ==
    \E n \in 1..Len(runners) : get_runs(model, runners[n]) > MinRuns

\* handle_race line 134: np.all(self.hm.get_runs(runners) > 2)
Eligible(model, runners) ==
    \A n \in 1..Len(runners) : get_runs(model, runners[n]) > MinRuns

\* Faulty variant of blend: line 143 is missing.
blend_upper_only(pp, odds) ==
    [n \in 1..Len(pp) |->
        LET rel == pp[n] * odds[n] - Unit
        IN  IF 10 * rel > Unit THEN (11 * Unit) \div (10 * odds[n])
            ELSE pp[n]]

\* handle_race lines 140-144: rel = p/q - 1; t = 0.1;
\* p[rel < -t] = q*0.9; p[rel > t] = q*1.1
blend(pp, odds) ==
    [n \in 1..Len(pp) |->
        LET rel == pp[n] * odds[n] - Unit
        IN  IF 10 * rel < -Unit THEN (9 * Unit) \div (10 * odds[n])
            ELSE IF 10 * rel > Unit THEN (11 * Unit) \div (10 * odds[n])
            ELSE pp[n]]

\* handle_race line 153: if coll > -60
Accept(c) == c > -MaxLoss * Unit

\* The quotes of the runners, in runner order (line 135).
Quotes(race) ==
    [n \in 1..Len(race.selection) |-> vwao[race.event_id][race.selection[n]]]

Reset == /\ p' = <<>>
         /\ w' = <<>>
         /\ coll' = <<>>
         /\ k' = 0

\* One run_backtest inside a worker process: no sweep of its own.
NoSweep ==
    /\ mparams = <<>>
    /\ jobs = 1
    /\ n_processes = 0
    /\ tasks = <<>>
    /\ status = <<>>
    /\ main = "worker"

\* Strategy.run lines 68-72, after handle_race has returned for the race of
\* index idx of enumerate(races): the report, if one is due, is appended.
report(ledger, idx, lg) ==
    IF idx > 0 /\ idx % LogEvery = 0
    THEN Append(lg, [i      |-> idx,
                     n_bets |-> Len(ledger),
                     pnl    |-> SumSeq([n \in 1..Len(ledger) |-> ledger[n].pnl])])
    ELSE lg

Init ==
    /\ train \in {S \in SUBSET RacePool : Cardinality(S) <= MaxRaces}
    /\ vwao = <<>>
    /\ cursor = {}
    /\ i = 0
    /\ curr = <<>>
    /\ bets = <<>>
    /\ hm = [h \in Horses |-> Prior]
    /\ pc = "init"
    /\ p = <<>>
    /\ w = <<>>
    /\ coll = <<>>
    /\ k = 0
    /\ events = {}
    /\ bkt_bets = <<>>
    /\ handled = <<>>
    /\ fitted = <<>>
    /\ log = <<>>
    /\ NoSweep

\* Strategy.run lines 54-62: load the quotes, open the sorted cursor.
Find ==
    /\ pc = "init"
    /\ vwao' = [e \in {r.event_id : r \in train} \cap DOMAIN QuotePool |-> QuotePool[e]]
    /\ cursor' = train
    /\ pc' = "loop"
    /\ UNCHANGED <<train, i, curr, bets, hm, p, w, coll, k, events, bkt_bets, handled, fitted, log>>
    /\ UNCHANGED sweepvars

\* Strategy.run lines 65-67: take the next race, make it current, call handle_race.
NextRace ==
    /\ pc = "loop"
    /\ \E r \in cursor_next(cursor) :
        /\ curr' = r
        /\ cursor' = cursor \ {r}
        /\ handled' = Append(handled, r)
    /\ i' = i + 1
    /\ pc' = "handle"
    /\ UNCHANGED <<train, vwao, bets, hm, p, w, coll, k, events, bkt_bets, fitted, log>>
    /\ UNCHANGED sweepvars

\* Faulty variant of HandleRace: fit_race is called before the bets are placed.
HandleRace_fit_first ==
    /\ pc = "handle"
    /\ UNCHANGED <<train, vwao, cursor, i, curr, bets, events, bkt_bets, handled>>
    /\ UNCHANGED sweepvars
    /\ IF Skipped(curr)
       THEN pc' = "loop" /\ Reset /\ UNCHANGED <<hm, fitted>>
            /\ log' = report(bets, i - 1, log)
       ELSE IF ~Eligible(hm, curr.selection)
       THEN pc' = "fit" /\ Reset /\ UNCHANGED <<hm, fitted, log>>
       ELSE IF \E n \in 1..Len(curr.selection) : ~HasQuote(curr.event_id, curr.selection[n])
       THEN pc' = "aborted" /\ Reset /\ UNCHANGED <<hm, fitted, log>>
       ELSE LET odds == Quotes(curr)
                pp   == blend(pwin_trapz(hm, curr.selection), odds)
                ww   == nwin1_l2reg(pp, odds)
                c    == MinSeq(nwin1_bet_returns(ww, odds))
            IN  /\ p' = pp
                /\ w' = ww
                /\ coll' = <<c>>
                /\ k' = 0
                /\ hm' = fit_race(hm, curr)
                /\ fitted' = Append(fitted, curr.event_id)
                /\ pc' = IF Accept(c) THEN "bet" ELSE "loop"
                /\ log' = IF Accept(c) THEN log ELSE report(bets, i - 1, log)

\* Jockey.handle_race lines 129-157, up to the decision to place the bets.
\* A quote lookup that fails raises KeyError, which nothing catches: the run
\* ends.  Indexing the quotes by a runner list with a runner missing depends
\* on the pandas at hand: KeyError, or a NaN odds, which makes coll NaN and
\* the test coll > -60 false.
HandleRace ==
    /\ pc = "handle"
    /\ UNCHANGED <<train, vwao, cursor, i, curr, bets, hm, events, bkt_bets, handled, fitted>>
    /\ UNCHANGED sweepvars
    /\ IF Skipped(curr)
       THEN pc' = "loop" /\ Reset /\ log' = report(bets, i - 1, log)
       ELSE IF ~Eligible(hm, curr.selection)
       THEN pc' = "fit" /\ Reset /\ UNCHANGED log
       ELSE IF curr.event_id \notin DOMAIN vwao
       THEN pc' = "aborted" /\ Reset /\ UNCHANGED log
       ELSE IF \E n \in 1..Len(curr.selection) : ~HasQuote(curr.event_id, curr.selection[n])
       THEN /\ pc' \in {"aborted", "fit"}
            /\ Reset
            /\ UNCHANGED log
       ELSE LET odds == Quotes(curr)
                pp   == blend(pwin_trapz(hm, curr.selection), odds)
                ww   == nwin1_l2reg(pp, odds)
                c    == MinSeq(nwin1_bet_returns(ww, odds))
            IN  /\ p' = pp
                /\ w' = ww
                /\ coll' = <<c>>
                /\ k' = 0
                /\ pc' = IF Accept(c) THEN "bet" ELSE "fit"
                /\ UNCHANGED log

\* Faulty variant of Bet: the list comprehension stops one runner short.
Bet_one_short ==
    /\ pc = "bet"
    /\ k < Len(curr.selection)
    /\ bets' = Append(bets, bet(curr, curr.event_id, curr.selection[k + 1], w[k + 1], p[k + 1]))
    /\ k' = k + 1
    /\ pc' = IF k + 1 >= Len(curr.selection) - 1 THEN "fit" ELSE "bet"
    /\ UNCHANGED <<train, vwao, cursor, i, curr, hm, p, w, coll, events, bkt_bets, handled, fitted, log>>
    /\ UNCHANGED sweepvars

\* Line 155, one runner of the list comprehension: Strategy.bet lines 26-42.
Bet ==
    /\ pc = "bet"
    /\ k < Len(curr.selection)
    /\ LET r == curr.selection[k + 1]
       IN  IF ~bet_asserts(curr.event_id)
           THEN /\ pc' = "assert_failed"
                /\ UNCHANGED <<bets, k>>
           ELSE IF ~HasQuote(curr.event_id, r)
           THEN /\ pc' = "aborted"
                /\ UNCHANGED <<bets, k>>
           ELSE /\ bets' = Append(bets, bet(curr, curr.event_id, r, w[k + 1], p[k + 1]))
                /\ k' = k + 1
                /\ pc' = IF k + 1 = Len(curr.selection) THEN "fit" ELSE "bet"
    /\ UNCHANGED <<train, vwao, cursor, i, curr, hm, p, w, coll, events, bkt_bets, handled, fitted, log>>
    /\ UNCHANGED sweepvars

\* Line 159: self.hm.fit_race(race)
FitRace ==
    /\ pc = "fit"
    /\ hm' = fit_race(hm, curr)
    /\ fitted' = Append(fitted, curr.event_id)
    /\ pc' = "loop"
    /\ Reset
    /\ log' = report(bets, i - 1, log)
    /\ UNCHANGED <<train, vwao, cursor, i, curr, bets, events, bkt_bets, handled>>
    /\ UNCHANGED sweepvars

\* The cursor is exhausted: run() returns.
Finish ==
    /\ pc = "loop"
    /\ cursor = {}
    /\ pc' = "finalized"
    /\ UNCHANGED <<train, vwao, cursor, i, curr, bets, hm, p, w, coll, k, events, bkt_bets, handled, fitted, log>>
    /\ UNCHANGED sweepvars

\* make_scorecard line 83: the worst single-winner return of a group of bets.
calculate_collateral(group) ==
    MinSeq(nwin1_bet_returns([n \in 1..Len(group) |-> group[n].amount],
                             [n \in 1..Len(group) |-> group[n].odds]))

\* Faulty variant of pnl_net: the commission is taken from every event.
pnl_net_all(gross) == (100 * gross * CommPct) \div 100

\* make_scorecard lines 93-94, in units of 1/(100*Unit):
\* pnl_net = pnl_gross; pnl_net[pnl_net > 0] *= comm
pnl_net(gross) ==
    LET net == 100 * gross
    IN  IF net > 0 THEN (net * CommPct) \div 100 ELSE net

\* Faulty variant of group_of: only the first bet of the event.
group_of_first(ledger, e) == SubSeq(SelectSeq(ledger, LAMBDA b : b.event_id = e), 1, 1)

\* bets.groupby('event_id'): the bets of one event, in ledger order.
group_of(ledger, e) == SelectSeq(ledger, LAMBDA b : b.event_id = e)

\* make_scorecard lines 88-94: one row per event of the ledger.
make_events(ledger) ==
    { LET v == group_of(ledger, e)
      IN  [event_id      |-> e,
           pnl_gross     |-> SumSeq([n \in 1..Len(v) |-> v[n].pnl]),
           coll          |-> calculate_collateral(v),
           scheduled_off |-> v[1].scheduled_off,
           pnl_net       |-> pnl_net(SumSeq([n \in 1..Len(v) |-> v[n].pnl]))]
      : e \in {ledger[n].event_id : n \in 1..Len(ledger)} }

\* The id the store gives the scorecard.
ScorecardId == "scorecard"

\* add_scorecard_id_to_dicts: d['scorecard_id'] = scorecard_id on every dict
\* of `dicts` itself, which is then yielded.
add_scorecard_id_to_dicts(scorecard_id, dicts) ==
    [n \in 1..Len(dicts) |-> [scorecard_id |-> scorecard_id] @@ dicts[n]]

\* run_backtest lines 73-78: the scorecard of the finished ledger.  An empty
\* ledger has no event_id column to group by: KeyError.
MakeScorecard ==
    /\ pc = "finalized"
    /\ IF bets = <<>>
       THEN pc' = "no_scorecard" /\ UNCHANGED events
       ELSE pc' = "scored" /\ events' = make_events(bets)
    /\ UNCHANGED <<train, vwao, cursor, i, curr, bets, hm, p, w, coll, k, bkt_bets, handled, fitted, log>>
    /\ UNCHANGED sweepvars

\* run_backtest line 81: the bets, tagged, are inserted; get_bets() returns
\* the ledger itself, so the tag lands on the ledger's own dicts.
InsertBets ==
    /\ pc = "scored"
    /\ bets' = add_scorecard_id_to_dicts(ScorecardId, bets)
    /\ bkt_bets' = bets'
    /\ pc' = "done"
    /\ UNCHANGED <<train, vwao, cursor, i, curr, hm, p, w, coll, k, events, handled, fitted, log>>
    /\ UNCHANGED sweepvars

Next == Find \/ NextRace \/ HandleRace \/ Bet \/ FitRace \/ Finish
        \/ MakeScorecard \/ InsertBets

Spec == Init /\ [][Next]_vars

----------------------------------------------------------------------------
(* The parameter sweep of backtest.py __main__ *)

\* backtest.py line 134
keys == <<"mu", "sigma", "beta", "tau", "draw_prob", "risk_aversion",
          "min_races", "max_exposure">>

\* The ranges arg_linspace can return (lines 90-99), with small numbers for
\* the floats: one value, a range of two or three, a range from a to a.
RangePool == { <<1>>, <<1, 2>>, <<2, 2>>, <<1, 2, 3>> }

JobsPool == {-1, 1, 2}

RECURSIVE n_backtests(_)
\* Line 137: reduce(lambda x, y: x * y, map(len, mparams))
n_backtests(ranges) ==
    IF Len(ranges) = 1 THEN Len(ranges[1])
    ELSE Len(ranges[1]) * n_backtests(Tail(ranges))

\* Faulty variant of product: the ranges are zipped.
product_zipped(ranges) ==
    LET shortest == CHOOSE m \in {Len(ranges[j]) : j \in 1..Len(ranges)} :
                        \A j \in 1..Len(ranges) : m <= Len(ranges[j])
    IN  [n \in 1..shortest |-> [j \in 1..Len(ranges) |-> ranges[j][n]]]

RECURSIVE product(_)
\* itertools.product(*ranges): the tuples in order, the last range varying
\* fastest.
product(ranges) ==
    IF ranges = <<>> THEN << <<>> >>
    ELSE LET hd   == Head(ranges)
             rest == product(Tail(ranges))
         IN  [n \in 1..(Len(hd) * Len(rest)) |->
                 <<hd[((n - 1) \div Len(rest)) + 1]>> \o rest[((n - 1) % Len(rest)) + 1]]

\* dict(zip(keys, values))
zip_dict(ks, vs) ==
    [x \in {ks[j] : j \in 1..Len(ks)} |-> vs[CHOOSE j \in 1..Len(ks) : ks[j] = x]]

\* Line 144: (n_bkt, args, dict(zip(keys, values))) for n_bkt, values in
\* enumerate(product(*mparams))
enumerate_tasks(ranges) ==
    LET combos == product(ranges)
    IN  [n \in 1..Len(combos) |-> [n_bkt |-> n - 1, mparams |-> zip_dict(keys, combos[n])]]

\* Pool.map: chunksize, extra = divmod(len(iterable), len(pool) * 4);
\* if extra: chunksize += 1
chunksize(n, procs) ==
    IF n % (4 * procs) # 0 THEN n \div (4 * procs) + 1 ELSE n \div (4 * procs)

\* The chunk of the task at position n (from 1) of the list given to map.
chunk_of(n) == (n - 1) \div chunksize(Len(tasks), n_processes)

InitSweep ==
    /\ mparams \in {m \in [1..Len(keys) -> RangePool] : n_backtests(m) <= MaxRuns}
    /\ jobs \in JobsPool
    /\ n_processes = 0
    /\ tasks = <<>>
    /\ status = <<>>
    /\ main = "start"
    /\ train = {}
    /\ vwao = <<>>
    /\ cursor = {}
    /\ i = 0
    /\ curr = <<>>
    /\ bets = <<>>
    /\ hm = [h \in Horses |-> Prior]
    /\ pc = "init"
    /\ p = <<>>
    /\ w = <<>>
    /\ coll = <<>>
    /\ k = 0
    /\ events = {}
    /\ bkt_bets = <<>>
    /\ handled = <<>>
    /\ fitted = <<>>
    /\ log = <<>>

\* Lines 137-144: the pool is created and the tasks are handed to pool.map.
Dispatch ==
    /\ main = "start"
    /\ \E cpu_count \in 1..MaxCpu :
          n_processes' = IF jobs < 0
                         THEN (IF cpu_count < n_backtests(mparams)
                               THEN cpu_count ELSE n_backtests(mparams))
                         ELSE jobs
    /\ tasks' = enumerate_tasks(mparams)
    /\ status' = [n \in 1..Len(tasks') |-> "queued"]
    /\ main' = "map"
    /\ UNCHANGED <<mparams, jobs>>
    /\ UNCHANGED replayvars

\* An idle worker takes the next chunk off the task queue and calls
\* run_backtest on its first task.
StartChunk ==
    /\ main = "map"
    /\ Cardinality({chunk_of(n) : n \in {m \in 1..Len(tasks) : status[m] = "running"}})
           < n_processes
    /\ \E n \in 1..Len(tasks) :
          /\ status[n] = "queued"
          /\ \A m \in 1..(n - 1) : status[m] # "queued"
          /\ status' = [status EXCEPT ![n] = "running"]
    /\ UNCHANGED <<mparams, jobs, n_processes, tasks, main>>
    /\ UNCHANGED replayvars

\* run_backtest (lines 43-87) returns, its results persisted; the worker goes
\* on to the next task of the chunk.
RunOK ==
    /\ main = "map"
    /\ \E n \in 1..Len(tasks) :
          /\ status[n] = "running"
          /\ status' = [m \in 1..Len(tasks) |->
                           IF m = n THEN "done"
                           ELSE IF m = n + 1 /\ chunk_of(m) = chunk_of(n) THEN "running"
                           ELSE status[m]]
    /\ UNCHANGED <<mparams, jobs, n_processes, tasks, main>>
    /\ UNCHANGED replayvars

\* run_backtest raises (the store is unreachable): the worker's map over the
\* chunk ends there, the rest of the chunk is never run, and the exception is
\* the chunk's result.
RunFail ==
    /\ main = "map"
    /\ \E n \in 1..Len(tasks) :
          /\ status[n] = "running"
          /\ status' = [m \in 1..Len(tasks) |->
                           IF m = n THEN "failed"
                           ELSE IF m > n /\ chunk_of(m) = chunk_of(n) THEN "dropped"
                           ELSE status[m]]
    /\ UNCHANGED <<mparams, jobs, n_processes, tasks, main>>
    /\ UNCHANGED replayvars

\* pool.map re-raises the exception of a failed chunk in the parent; nothing
\* catches it at line 144, the script ends and the pool's workers, which are
\* daemonic, are terminated with it.
Raise ==
    /\ main = "map"
    /\ \E n \in 1..Len(tasks) : status[n] = "failed"
    /\ main' = "exited"
    /\ status' = [m \in 1..Len(tasks) |->
                     IF status[m] = "running" THEN "killed" ELSE status[m]]
    /\ UNCHANGED <<mparams, jobs, n_processes, tasks>>
    /\ UNCHANGED replayvars

\* pool.map returns: every task is done.
Return ==
    /\ main = "map"
    /\ \A n \in 1..Len(tasks) : status[n] = "done"
    /\ main' = "returned"
    /\ UNCHANGED <<mparams, jobs, n_processes, tasks, status>>
    /\ UNCHANGED replayvars

NextSweep == Dispatch \/ StartChunk \/ RunOK \/ RunFail \/ Raise \/ Return

SpecSweep == InitSweep /\ [][NextSweep]_vars

----------------------------------------------------------------------------
(* Replay of a long stream *)

\* The lengths of the long streams.
StreamLens == {2 * LogEvery, MaxStream}

\* The n-th race of a long stream: three runners, h2 wins, or h1 and h2 win
\* in turn.
LongRace(n, turns) ==
    Race(100 + n, n, "WIN", <<"h1", "h2", "h3">>,
         IF turns /\ n % 2 = 1 THEN {"h1"} ELSE {"h2"})

InitLong ==
    /\ \E len \in StreamLens, turns \in BOOLEAN :
          train = {LongRace(n, turns) : n \in 1..len}
    /\ vwao = <<>>
    /\ cursor = {}
    /\ i = 0
    /\ curr = <<>>
    /\ bets = <<>>
    /\ hm = [h \in Horses |-> Prior]
    /\ pc = "init"
    /\ p = <<>>
    /\ w = <<>>
    /\ coll = <<>>
    /\ k = 0
    /\ events = {}
    /\ bkt_bets = <<>>
    /\ handled = <<>>
    /\ fitted = <<>>
    /\ log = <<>>
    /\ NoSweep

SpecLong == InitLong /\ [][Next]_vars

----------------------------------------------------------------------------
(* Strategy.bet called with any event id *)

\* The races the replays of SpecBet draw from.
BetRacePool == {r \in RacePool : r.event_id \in {1, 2, 3, 4, 5, 6, 13}}

InitBet == Init /\ train \subseteq BetRacePool

\* Strategy.bet lines 25-42, called from within handle_race with the event id
\* of any race of the collection, for the first runner of the current race
\* and a unit back stake; handle_race then goes on to fit_race.  A failed
\* assertion (line 26) or quote lookup (line 30) raises before line 42.
CallBet ==
    /\ pc = "handle"
    /\ \E e \in {r.event_id : r \in train} :
          LET s == curr.selection[1]
          IN  IF ~bet_asserts(e)
              THEN pc' = "assert_failed" /\ bets' = bets
              ELSE IF ~HasQuote(e, s)
              THEN pc' = "aborted" /\ bets' = bets
              ELSE /\ bets' = Append(bets, bet(curr, e, s, Unit, 0))
                   /\ pc' = "fit"
    /\ UNCHANGED <<train, vwao, cursor, i, curr, hm, p, w, coll, k, events, bkt_bets, handled, fitted, log>>
    /\ UNCHANGED sweepvars

NextBet == Next \/ CallBet

SpecBet == InitBet /\ [][NextBet]_vars

----------------------------------------------------------------------------
(* Properties *)

InSeq(x, s) == \E n \in 1..Len(s) : s[n] = x

\* Number of bets of the ledger on event e.
NBets(e) == Len(SelectSeq(bets, LAMBDA b : b.event_id = e))

\* The race of the collection with event id e.
RaceOf(e) == CHOOSE r \in train : r.event_id = e

\* Number of fitted races horse h ran in.
RunsFitted(h) ==
    Cardinality({n \in 1..Len(fitted) :
        \E m \in 1..Len(RaceOf(fitted[n]).selection) : RaceOf(fitted[n]).selection[m] = h})

\* handle_race has returned for the current race (or raised).
Returned == curr # <<>> /\ pc \notin {"handle", "bet", "fit"}

\* The snapshot holds no quote of the race: the lookup of line 135 fails.
QuoteMissing(race) == race.event_id \notin DOMAIN vwao

\* C1: a bet is only ever appended for a race that has not been fitted, so
\* the beliefs its probability was computed from hold no outcome of that race;
\* and fitting a race appends no bet.
C1_FitAfterBets ==
    [][ /\ Len(bets') > Len(bets) =>
              /\ ~InSeq(bets'[Len(bets')].event_id, fitted)
              /\ ~InSeq(bets'[Len(bets')].event_id, fitted')
        /\ fitted' # fitted => bets' = bets ]_vars

\* C1 witness: a race with bets in the ledger has been fitted.
C1_Witness ==   \E n \in 1..Len(bets) : InSeq(bets[n].event_id, fitted)

\* C2: outside the placing of the bets of a race, every race has either one
\* bet per runner or no bet in the ledger; a race the collateral check
\* rejected, or whose handling raised, has none.
C2_AllOrNothing ==
    pc # "bet" =>
        /\ \A r \in train : NBets(r.event_id) \in {0, Len(r.selection)}
        /\ (pc = "fit" /\ coll # <<>> /\ ~(coll[1] > -MaxLoss * Unit))
               => NBets(curr.event_id) = 0
        /\ pc = "aborted" => NBets(curr.event_id) = 0

\* C2 witness: the collateral check rejected the stakes of a race while
\* another race has all its bets in the ledger.
C2_Witness ==
      /\ pc = "fit" /\ coll # <<>> /\ ~(coll[1] > -MaxLoss * Unit)
      /\ \E r \in train : NBets(r.event_id) = Len(r.selection)

\* C3: the worst single-winner return of the bets of every event of the
\* ledger is at least -max_exposure.
C3_CollateralWithinMaxExposure ==
    pc # "bet" =>
        \A r \in train :
            NBets(r.event_id) > 0 =>
                calculate_collateral(group_of(bets, r.event_id)) >= -max_exposure * Unit

C5_MissingQuoteRecoverable ==
    (Returned /\ ~Skipped(curr) /\ QuoteMissing(curr)) =>
        /\ pc # "aborted"
        /\ NBets(curr.event_id) = 0
        /\ InSeq(curr.event_id, fitted)

\* C6 as stated: a race with too few runners gets no bet and is fitted.
C6_TooFewRunnersStillFitted ==
    (Returned /\ curr.event # TO_BE_PLACED /\ curr.n_runners < MinRunners) =>
        /\ NBets(curr.event_id) = 0
        /\ InSeq(curr.event_id, fitted)

\* C6 amended: handling a race with too few runners appends no bet and
\* leaves every skill belief as it was.
C6_TooFewRunnersUntouched ==
    [][ (pc = "handle" /\ curr.n_runners < MinRunners) =>
            (pc' = "loop" /\ bets' = bets /\ hm' = hm /\ fitted' = fitted) ]_vars

\* C6 witness: a race with too few runners has been handled while beliefs
\* of its runners exist.
C6_Witness ==
      /\ Returned /\ curr.n_runners < MinRunners /\ curr.event # TO_BE_PLACED
      /\ \E n \in 1..Len(curr.selection) : get_runs(hm, curr.selection[n]) > 0

\* C7: a race with no winner recorded gets no bet and changes no belief.
C7_NoWinnerSkipped ==
    \A n \in 1..Len(handled) :
        (handled[n].winners = {} /\ (n < Len(handled) \/ Returned)) =>
            /\ NBets(handled[n].event_id) = 0
            /\ ~InSeq(handled[n].event_id, fitted)

\* C8: the ledger only grows, by appending, and a bet in it never changes.
C8_LedgerAppendOnly ==
    [][ /\ Len(bets') >= Len(bets)
        /\ \A n \in 1..Len(bets) : bets'[n] = bets[n]
        /\ Len(bets') > Len(bets) => pc = "bet" ]_vars

\* C9: the races are handled in non-decreasing scheduled_off order, whatever
\* the collection holds.
C9_HandledInTimeOrder ==
    \A m, n \in 1..Len(handled) :
        m < n => handled[m].scheduled_off <= handled[n].scheduled_off

\* C9 witness: three races have been handled, two of them in the reverse of
\* their event id order.
C9_Witness ==
      /\ Len(handled) >= 3
      /\ \E m, n \in 1..Len(handled) :
            /\ m < n
            /\ handled[m].event_id > handled[n].event_id
            /\ handled[m].scheduled_off < handled[n].scheduled_off

\* C10: for every event of the scorecard, net P&L is gross P&L when gross is
\* at most 0 and gross times the commission factor when gross is above 0
\* (net is in hundredths of the unit of gross).
C10_Commission ==
    \A e \in events :
        /\ e.pnl_gross <= 0 => e.pnl_net = 100 * e.pnl_gross
        /\ e.pnl_gross > 0 => e.pnl_net = CommPct * e.pnl_gross

\* C10 witness: the scorecard has an event with a gain and one with a loss.
C10_Witness ==
      /\ \E e \in events : e.pnl_gross > 0
      /\ \E e \in events : e.pnl_gross < 0

RECURSIVE GrossTotal(_)
\* Sum of pnl_gross over a set of event rows.
GrossTotal(E) ==
    IF E = {} THEN 0
    ELSE LET e == CHOOSE x \in E : TRUE IN e.pnl_gross + GrossTotal(E \ {e})

\* C11: once the scorecard is built, the per-event gross P&L figures add up
\* to the sum of pnl over the ledger, and every bet belongs to exactly one
\* event row, every event row to some bet.
C11_GrossRoundTrip ==
    pc \in {"scored", "done"} =>
        /\ GrossTotal(events) = SumSeq([n \in 1..Len(bets) |-> bets[n].pnl])
        /\ \A n \in 1..Len(bets) :
              Cardinality({e \in events : e.event_id = bets[n].event_id}) = 1
        /\ \A e \in events : NBets(e.event_id) > 0

\* C11 witness: a scorecard of two events whose gross P&L differ and do not
\* cancel.
C11_Witness ==
    /\ pc = "scored"
    /\ Cardinality(events) = 2
    /\ \E e, f \in events : e.pnl_gross > 0 /\ f.pnl_gross < 0
    /\ GrossTotal(events) # 0

\* C12: after the capping of p, for every runner q*(1-t) <= p <= q*(1+t)
\* with t = 0.1 and q = 1/odds; a model probability above q*(1+t) has become
\* q*(1+t), one below q*(1-t) has become q*(1-t), any other is unchanged.
C12_Blend ==
    (pc \in {"bet", "fit"} /\ p # <<>>) =>
        LET raw == pwin_trapz(hm, curr.selection)
        IN  \A n \in 1..Len(p) :
                LET o == QuotePool[curr.event_id][curr.selection[n]]
                IN  /\ 9 * Unit <= 10 * p[n] * o
                    /\ 10 * p[n] * o <= 11 * Unit
                    /\ 10 * raw[n] * o > 11 * Unit => 10 * p[n] * o = 11 * Unit
                    /\ 10 * raw[n] * o < 9 * Unit => 10 * p[n] * o = 9 * Unit
                    /\ (9 * Unit <= 10 * raw[n] * o /\ 10 * raw[n] * o <= 11 * Unit)
                           => p[n] = raw[n]

\* C12 witness: one race with a probability capped from above, one capped
\* from below and one left as the model gave it.
C12_Witness ==
    /\ pc \in {"bet", "fit"} /\ p # <<>>
    /\ LET raw == pwin_trapz(hm, curr.selection)
       IN  /\ \E n \in 1..Len(p) : raw[n] > p[n]
           /\ \E n \in 1..Len(p) : raw[n] < p[n]
           /\ \E n \in 1..Len(p) : raw[n] = p[n]

\* C17: the pnl of every bet is amount*(odds-1) when its selection is among
\* the winners of its race and -amount otherwise, with the odds of the quote;
\* a lay (amount < 0) so loses |amount|*(odds-1) on a winner and gains
\* |amount| on a loser.
C17_RealizedPnl ==
    \A n \in 1..Len(bets) :
        LET b == bets[n]
            r == RaceOf(b.event_id)
            o == QuotePool[b.event_id][b.selection]
        IN  /\ b.odds = o
            /\ b.win = r.winners
            /\ b.selection \in r.winners => b.pnl = b.amount * (o - 1)
            /\ b.selection \notin r.winners => b.pnl = -b.amount
            /\ (b.amount < 0 /\ b.selection \in r.winners)
                   => b.pnl = -((-b.amount) * (o - 1))
            /\ (b.amount < 0 /\ b.selection \notin r.winners) => b.pnl = -b.amount

\* C17 witness: the ledger holds a lay on a winner and a lay on a loser.
C17_Witness ==
    /\ \E n \in 1..Len(bets) :
          bets[n].amount < 0 /\ bets[n].selection \in bets[n].win /\ bets[n].pnl < 0
    /\ \E n \in 1..Len(bets) :
          bets[n].amount < 0 /\ bets[n].selection \notin bets[n].win /\ bets[n].pnl > 0

\* C18: stakes whose worst-case return is not below the floor of line 153,
\* the floor itself included, are placed.
C18_FloorAccepted ==
    (pc = "fit" /\ coll # <<>> /\ coll[1] >= -MaxLoss * Unit) =>
        NBets(curr.event_id) = Len(curr.selection)

\* C19: handling a race that carries the placeholder marker appends no bet
\* and fits nothing, whatever its runner count and the history of its runners.
C19_PlaceholderUntouched ==
    [][ (pc = "handle" /\ curr.event = TO_BE_PLACED) =>
            (pc' = "loop" /\ bets' = bets /\ hm' = hm /\ fitted' = fitted) ]_vars

\* C19 witness: a placeholder race with enough runners, all of them past the
\* history gate, has been handled.
C19_Witness ==
    /\ Returned /\ curr.event = TO_BE_PLACED
    /\ curr.n_runners >= MinRunners
    /\ \A n \in 1..Len(curr.selection) : get_runs(hm, curr.selection[n]) > MinRuns

\* C16: every bet is appended with the event id and the scheduled time of
\* the current race; a call of bet() that fails its assertion leaves the
\* ledger as it was; so every bet of the ledger is on a race already passed
\* to handle_race.
C16_BetsOnCurrentRace ==
    /\ [][ (pc \in {"handle", "bet"} /\ bets' # bets) =>
              /\ Len(bets') = Len(bets) + 1
              /\ SubSeq(bets', 1, Len(bets)) = bets
              /\ bets'[Len(bets')].event_id = curr.event_id
              /\ bets'[Len(bets')].scheduled_off = curr.scheduled_off ]_vars
    /\ [][ pc' = "assert_failed" => bets' = bets ]_vars
    /\ [](\A n \in 1..Len(bets) : \E m \in 1..Len(handled) :
              /\ handled[m].event_id = bets[n].event_id
              /\ handled[m].scheduled_off = bets[n].scheduled_off)

\* C16 witness: bet() has been called with the id of a race other than the
\* current one, with bets already in the ledger and races still to come.
C16_Witness == pc = "assert_failed" /\ bets # <<>> /\ cursor # {}

\* The sum of pnl over the bets on the races of the j-th window of LogEvery
\* races handled.
WindowPnl(j) ==
    LET inwin(b) == \E m \in ((j - 1) * LogEvery + 1)..(j * LogEvery) :
                        m <= Len(handled) /\ handled[m].event_id = b.event_id
        sel      == SelectSeq(bets, inwin)
    IN  SumSeq([n \in 1..Len(sel) |-> sel[n].pnl])

\* C13: in the replay of a stream of 200 races, once the 100th (the 200th)
\* race has been handled, the first (second) progress report has been made,
\* and its pnl is the sum of pnl over the bets of races 1-100 (101-200).
C13_ReportPerWindow ==
    \A j \in 1..2 :
        ( /\ Cardinality(train) = 2 * LogEvery
          /\ \/ Len(handled) > j * LogEvery
             \/ Len(handled) = j * LogEvery /\ Returned )
        => /\ Len(log) >= j
           /\ log[j].pnl = WindowPnl(j)

\* C14: once the sweep has ended, every run other than those that failed
\* themselves has been executed to completion, its results persisted.
C14_FailureIsolated ==
    main \in {"exited", "returned"} =>
        \A n \in 1..Len(tasks) : status[n] \in {"failed", "done"}

RECURSIVE Stride(_, _)
\* The number of combinations between two successive values of range j.
Stride(ranges, j) ==
    IF j = Len(ranges) THEN 1 ELSE Len(ranges[j + 1]) * Stride(ranges, j + 1)

\* The position in range j of the value that the combination of index n
\* (from 0) takes from it.
Digit(ranges, n, j) == ((n \div Stride(ranges, j)) % Len(ranges[j])) + 1

\* C15: the tasks dispatched are as many as the product of the range
\* lengths, their indices are 0..N-1 in order, and the task of index n holds,
\* for every key, the value at the n-th tuple of positions of the ranges: one
\* task per tuple of positions, none twice, none left out; where no range
\* repeats a value, no two tasks hold the same combination.
C15_OneRunPerCombination ==
    main # "start" =>
        /\ Len(tasks) = n_backtests(mparams)
        /\ Len(status) = Len(tasks)
        /\ \A n \in 1..Len(tasks) :
              /\ tasks[n].n_bkt = n - 1
              /\ DOMAIN tasks[n].mparams = {keys[j] : j \in 1..Len(keys)}
              /\ \A j \in 1..Len(keys) :
                    tasks[n].mparams[keys[j]] = mparams[j][Digit(mparams, n - 1, j)]
        /\ (\A j \in 1..Len(keys) : \A a, b \in 1..Len(mparams[j]) :
                a # b => mparams[j][a] # mparams[j][b])
           => \A n, m \in 1..Len(tasks) :
                  n # m => tasks[n].mparams # tasks[m].mparams

\* C15 witness: a sweep over a range of two and a range of three values, all
\* six runs done.
C15_Witness ==
    /\ main = "returned"
    /\ Len(tasks) = 6
    /\ \E j, l \in 1..Len(keys) : Len(mparams[j]) = 2 /\ Len(mparams[l]) = 3
    /\ \A n \in 1..Len(tasks) : status[n] = "done"

====
